---- MODULE Spec2Model ----
(***************************************************************************)
(* Snake Rush: the simulation core of src/snake_rush.py (Snake, Food,      *)
(* LeaderBoard, Game) as a state machine.  One action per event handled by *)
(* Game.handle_events and one for Game.update; the main loop of main()     *)
(* runs handle_events (any number of queued events) and then update, so    *)
(* events and updates interleave freely.  Positions are pixel coordinates  *)
(* as in the source; a cell is BLOCK_SIZE pixels wide.                     *)
(* The LeaderBoard class of src/snakerush.py, which handles write failures *)
(* differently, is modelled beside it (variant).                           *)
(***************************************************************************)
EXTENDS Integers, Sequences, FiniteSets, TLC

\* ---------------------------------------------------------------- bounds
\* The display is GRID_WIDTH x GRID_HEIGHT cells (info.current_w // BLOCK_SIZE).
GRID_WIDTH == 3
GRID_HEIGHT == 2
\* Playing ticks explored from an initial state.
MaxTicks == 3
\* Ticks the late session has coasted before it is taken up (SpecLate).
LateTicks == 147
\* Direction requests made between two ticks.
MaxRequests == 3
\* Cells each way of the window of the roomy session (SpecRoomy).
RoomCells == 3

\* ------------------------------------------------------ program constants
BLOCK_SIZE == 30
BASE_FPS == 8
MAX_FPS == 20
SPEED_INTERVAL == 5
MAX_ENTRIES == 10
TIMER_2 == 150
TIMER_3 == 100
TIMER_4 == 80
FOOD_STEP == 15
BASE_FOODS == 2
MAX_FOODS == 4

VARIABLES
    positions, direction, next_direction, length, score,   \* Snake
    foods,                                                 \* Game.foods
    game_over, paused, title_screen, show_leaderboard,     \* Game flags
    score_submitted, current_speed,
    scores,                                                \* LeaderBoard.scores
    file,                                                  \* LEADERBOARD_FILE
    SCREEN_WIDTH, SCREEN_HEIGHT,                           \* module globals
    status,                                                \* running / exited / hung / load_raised / save_raised
    variant,                                               \* the source file that runs
    ticks                                                  \* ticks counted against MaxTicks

vars == <<positions, direction, next_direction, length, score, foods,
          game_over, paused, title_screen, show_leaderboard, score_submitted,
          current_speed, scores, file, SCREEN_WIDTH, SCREEN_HEIGHT, status,
          variant, ticks>>


\* ------------------------------------------------------------------ helpers
Min(a, b) == IF a < b THEN a ELSE b

Directions == {<<1, 0>>, <<-1, 0>>, <<0, 1>>, <<0, -1>>}

\* The cells of the playfield, in pixels.
GridCells == {<<x * BLOCK_SIZE, y * BLOCK_SIZE>> : x \in 0..(GRID_WIDTH - 1), y \in 0..(GRID_HEIGHT - 1)}

\* Row draws of random.randint(0, GRID_HEIGHT - 1) that are explored: the
\* row the snake starts in.
RandomRows == {GRID_HEIGHT \div 2}

\* Food.randomize_position: randint(0, GRID_WIDTH - 1) * BLOCK_SIZE and
\* randint(0, GRID_HEIGHT - 1) * BLOCK_SIZE.
RandomCells == {<<x * BLOCK_SIZE, y * BLOCK_SIZE>> : x \in 0..(GRID_WIDTH - 1), y \in RandomRows}

\* The elements of a sequence, as a set.
Range(s) == {s[i] : i \in 1..Len(s)}

\* positions[1:]
Body(pos) == {pos[i] : i \in 2..Len(pos)}

\* The whole program state as one record, so that a handler is a function
\* from a state to the set of states it may leave behind.
Cur == [positions |-> positions, direction |-> direction,
        next_direction |-> next_direction, length |-> length, score |-> score,
        foods |-> foods, game_over |-> game_over, paused |-> paused,
        title_screen |-> title_screen, show_leaderboard |-> show_leaderboard,
        score_submitted |-> score_submitted, current_speed |-> current_speed,
        scores |-> scores, file |-> file, SCREEN_WIDTH |-> SCREEN_WIDTH,
        SCREEN_HEIGHT |-> SCREEN_HEIGHT, status |-> status, variant |-> variant,
        ticks |-> ticks]

Install(s) ==
    /\ positions' = s.positions
    /\ direction' = s.direction
    /\ next_direction' = s.next_direction
    /\ length' = s.length
    /\ score' = s.score
    /\ foods' = s.foods
    /\ game_over' = s.game_over
    /\ paused' = s.paused
    /\ title_screen' = s.title_screen
    /\ show_leaderboard' = s.show_leaderboard
    /\ score_submitted' = s.score_submitted
    /\ current_speed' = s.current_speed
    /\ scores' = s.scores
    /\ file' = s.file
    /\ SCREEN_WIDTH' = s.SCREEN_WIDTH
    /\ SCREEN_HEIGHT' = s.SCREEN_HEIGHT
    /\ status' = s.status
    /\ variant' = s.variant
    /\ ticks' = s.ticks

\* The state before construction and after the process has ended: nothing
\* but the file f.
Blank(f) ==
    [positions |-> <<>>, direction |-> <<1, 0>>, next_direction |-> <<1, 0>>,
     length |-> 1, score |-> 0, foods |-> <<>>, game_over |-> FALSE,
     paused |-> FALSE, title_screen |-> TRUE, show_leaderboard |-> FALSE,
     score_submitted |-> FALSE, current_speed |-> BASE_FPS, scores |-> <<>>,
     file |-> f, SCREEN_WIDTH |-> GRID_WIDTH * BLOCK_SIZE,
     SCREEN_HEIGHT |-> GRID_HEIGHT * BLOCK_SIZE, status |-> "running",
     variant |-> "snake_rush", ticks |-> 0]

\* ------------------------------------------------------------ LeaderBoard
\* The leaderboard file: absent, a JSON list of records, text that is not
\* JSON (a write that failed half way), or JSON of another shape (not a
\* list, or a list with an element that has no numeric "score").
AbsentFile == [kind |-> "absent", entries |-> <<>>]
MalformedFile == [kind |-> "malformed", entries |-> <<>>]
WrongShapeFile == [kind |-> "wrong_shape", entries |-> <<>>]

\* json.dump(self.scores, f): a JSON list of {score, length, date} records.
JsonDump(sc) == [kind |-> "list", entries |-> sc]

\* list.sort(key=score, reverse=True): stable, descending by score.
\* A different program: the sort puts an entry before its equals (not
\* stable).
RECURSIVE InsertDescUnstable(_, _)
InsertDescUnstable(sorted, e) ==
    IF sorted = <<>> THEN <<e>>
    ELSE IF Head(sorted).score > e.score
         THEN <<Head(sorted)>> \o InsertDescUnstable(Tail(sorted), e)
         ELSE <<e>> \o sorted

RECURSIVE InsertDesc(_, _)
InsertDesc(sorted, e) ==
    IF sorted = <<>> THEN <<e>>
    ELSE IF Head(sorted).score >= e.score
         THEN <<Head(sorted)>> \o InsertDesc(Tail(sorted), e)
         ELSE <<e>> \o sorted

RECURSIVE SortDesc(_)
SortDesc(sc) ==
    IF sc = <<>> THEN <<>>
    ELSE InsertDesc(SortDesc(SubSeq(sc, 1, Len(sc) - 1)), sc[Len(sc)])

\* self.scores[:10]
Top10(sc) == SubSeq(sc, 1, Min(Len(sc), MAX_ENTRIES))

\* Outcomes of open(LEADERBOARD_FILE, 'w') + json.dump: written, or the
\* open failed (the file is as before).
IoOutcomes == {"ok", "open_failed"}

\* LeaderBoard.save_scores: an IOError is printed and swallowed.
save_scores(sc, f, io) ==
    CASE io = "ok" -> JsonDump(sc)
      [] OTHER -> f

\* LeaderBoard.load_scores, called from __init__ with self.scores = [].
\* Returns the scores, the file it leaves and the call that raised, if any:
\* json.JSONDecodeError and IOError are caught; the AttributeError,
\* TypeError or KeyError of sort() on JSON of another shape is not.
load_scores(f, io) ==
    CASE f.kind = "absent" ->
            [scores |-> <<>>, file |-> save_scores(<<>>, f, io), raised |-> ""]
      [] io = "open_failed" \/ f.kind = "malformed" ->
            [scores |-> <<>>, file |-> f, raised |-> ""]
      [] f.kind = "wrong_shape" -> [scores |-> <<>>, file |-> f, raised |-> "load_raised"]
      [] OTHER -> [scores |-> Top10(SortDesc(f.entries)), file |-> f, raised |-> ""]

MinScore(sc) == CHOOSE m \in {sc[i].score : i \in 1..Len(sc)} :
                    \A i \in 1..Len(sc) : m <= sc[i].score

\* A different program: a score equal to the minimum qualifies.
is_high_scoreOrEqual(sc, s) ==
    IF sc = <<>> THEN TRUE
    ELSE Len(sc) < MAX_ENTRIES \/ s >= MinScore(sc)

\* LeaderBoard.is_high_score
is_high_score(sc, s) ==
    IF sc = <<>> THEN TRUE
    ELSE Len(sc) < MAX_ENTRIES \/ s > MinScore(sc)

\* A different program: the list is not cut back to ten entries.
add_scoreNoTruncate(sc, f, s, len, date, io) ==
    IF s > 0
    THEN LET new_entry == [score |-> s, length |-> len, date |-> date]
             sorted == SortDesc(Append(sc, new_entry))
         IN [scores |-> sorted, file |-> save_scores(sorted, f, io)]
    ELSE [scores |-> sc, file |-> f]

\* A different program: a score of 0 is entered too.
add_scoreNonNegative(sc, f, s, len, date, io) ==
    IF s >= 0
    THEN LET new_entry == [score |-> s, length |-> len, date |-> date]
             sorted == SortDesc(Append(sc, new_entry))
             kept == IF Len(sorted) > MAX_ENTRIES THEN Top10(sorted) ELSE sorted
         IN [scores |-> kept, file |-> save_scores(kept, f, io)]
    ELSE [scores |-> sc, file |-> f]

\* A different program: the list is cut back to ten before it is sorted.
add_scoreTruncateFirst(sc, f, s, len, date, io) ==
    IF s > 0
    THEN LET new_entry == [score |-> s, length |-> len, date |-> date]
             kept == SortDesc(Top10(Append(sc, new_entry)))
         IN [scores |-> kept, file |-> save_scores(kept, f, io)]
    ELSE [scores |-> sc, file |-> f]

\* LeaderBoard.add_score: returns the scores and the file it leaves.
add_score(sc, f, s, len, date, io) ==
    IF s > 0
    THEN LET new_entry == [score |-> s, length |-> len, date |-> date]
             sorted == SortDesc(Append(sc, new_entry))
             kept == IF Len(sorted) > MAX_ENTRIES THEN Top10(sorted) ELSE sorted
         IN [scores |-> kept, file |-> save_scores(kept, f, io)]
    ELSE [scores |-> sc, file |-> f]

\* LeaderBoard.reset_scores
reset_scores(f, io) == [scores |-> <<>>, file |-> save_scores(<<>>, f, io)]

\* snakerush.py, LeaderBoard.save_scores: no try, an IOError leaves the call.
snakerush_save_scores(sc, f, io) ==
    CASE io = "ok" -> [file |-> JsonDump(sc), raised |-> ""]
      [] OTHER -> [file |-> f, raised |-> "save_raised"]

\* snakerush.py, LeaderBoard.load_scores: the try is around the read only;
\* the missing file is created outside it.
snakerush_load_scores(f, io) ==
    CASE f.kind = "absent" ->
            [scores |-> <<>>,
             file |-> IF io = "ok" THEN JsonDump(<<>>) ELSE f,
             raised |-> IF io = "ok" THEN "" ELSE "save_raised"]
      [] io = "open_failed" \/ f.kind = "malformed" ->
            [scores |-> <<>>, file |-> f, raised |-> ""]
      [] f.kind = "wrong_shape" -> [scores |-> <<>>, file |-> f, raised |-> "load_raised"]
      [] OTHER -> [scores |-> Top10(SortDesc(f.entries)), file |-> f, raised |-> ""]

\* snakerush.py, LeaderBoard.add_score: the list is updated before
\* save_scores is called.
snakerush_add_score(sc, f, s, len, date, io) ==
    IF s > 0
    THEN LET new_entry == [score |-> s, length |-> len, date |-> date]
             sorted == SortDesc(Append(sc, new_entry))
             kept == IF Len(sorted) > MAX_ENTRIES THEN Top10(sorted) ELSE sorted
             saved == snakerush_save_scores(kept, f, io)
         IN [scores |-> kept, file |-> saved.file, raised |-> saved.raised]
    ELSE [scores |-> sc, file |-> f, raised |-> ""]

\* ------------------------------------------------------------------ Snake
\* Snake.reset
Snake_reset(s) ==
    [s EXCEPT !.positions = <<<<(GRID_WIDTH \div 2) * BLOCK_SIZE,
                               (GRID_HEIGHT \div 2) * BLOCK_SIZE>>>>,
              !.direction = <<1, 0>>,
              !.next_direction = <<1, 0>>,
              !.length = 1,
              !.score = 0]

\* The head the move would produce (Snake.update): head + direction, wrapped
\* modulo the screen size in pixels.
NewHead(pos, dir, sw, sh) ==
    <<(pos[1][1] + dir[1] * BLOCK_SIZE) % sw, (pos[1][2] + dir[2] * BLOCK_SIZE) % sh>>

\* A different program: the snake passes through itself.
HitsBodyNever(pos, dir, sw, sh) == FALSE

\* A different program: the collision test run after the tail has been popped.
HitsBodyAfterPop(pos, dir, sw, sh) ==
    NewHead(pos, dir, sw, sh) \in {pos[i] : i \in 2..(Len(pos) - 1)}

\* Snake.update returns True: the new head is in positions[1:].
HitsBody(pos, dir, sw, sh) == NewHead(pos, dir, sw, sh) \in Body(pos)

\* A different program: the tail is popped on every move.
MovedPopAlways(pos, dir, len, sw, sh) ==
    LET ins == <<NewHead(pos, dir, sw, sh)>> \o pos
    IN SubSeq(ins, 1, Len(ins) - 1)

\* A different program: the tail is never popped.
MovedNoPop(pos, dir, len, sw, sh) == <<NewHead(pos, dir, sw, sh)>> \o pos

\* positions after the insert and the pop of Snake.update.
Moved(pos, dir, len, sw, sh) ==
    LET ins == <<NewHead(pos, dir, sw, sh)>> \o pos
    IN IF Len(ins) > len THEN SubSeq(ins, 1, Len(ins) - 1) ELSE ins

\* Snake.update: commits next_direction, then moves unless the move collides.
\* ret is the value returned.
Snake_update(s) ==
    LET d == s.next_direction
        s1 == [s EXCEPT !.direction = d]
    IN IF HitsBody(s.positions, d, s.SCREEN_WIDTH, s.SCREEN_HEIGHT)
       THEN [ret |-> TRUE, st |-> s1]
       ELSE [ret |-> FALSE,
             st |-> [s1 EXCEPT !.positions =
                        Moved(s.positions, d, s.length, s.SCREEN_WIDTH, s.SCREEN_HEIGHT)]]

\* A different program: every request is taken.
change_directionAlways(s, d) == [s EXCEPT !.next_direction = d]

\* A different program: the request is compared with the pending direction.
change_directionPending(s, d) ==
    IF <<d[1] * (-1), d[2] * (-1)>> # s.next_direction
    THEN [s EXCEPT !.next_direction = d]
    ELSE s

\* A different program: an accepted request turns the snake at once.
change_directionAtOnce(s, d) ==
    IF <<d[1] * (-1), d[2] * (-1)>> # s.direction
    THEN [s EXCEPT !.direction = d, !.next_direction = d]
    ELSE s

\* Snake.change_direction: a request for the inverse of direction is ignored.
change_direction(s, d) ==
    IF <<d[1] * (-1), d[2] * (-1)>> # s.direction
    THEN [s EXCEPT !.next_direction = d]
    ELSE s

\* ------------------------------------------------------------------- Food
\* A different program: every lifetime is one tick shorter.
FoodTimerShort(t) ==
    CASE t = 2 -> TIMER_2 - 1 [] t = 3 -> TIMER_3 - 1 [] t = 4 -> TIMER_4 - 1 [] OTHER -> 0

FoodTimer(t) == CASE t = 2 -> TIMER_2 [] t = 3 -> TIMER_3 [] t = 4 -> TIMER_4 [] OTHER -> 0
FoodPoints(t) == CASE t = 2 -> 2 [] t = 3 -> 3 [] t = 4 -> 5 [] OTHER -> 1

\* Food.__init__ with the position its (re)randomisation ended on.
Food(t, p) == [type |-> t, position |-> p, timer |-> FoodTimer(t),
               active |-> TRUE, points |-> FoodPoints(t)]

\* Food.update: only finite-lifetime foods count down.
Food_update(f) ==
    IF f.type > 1
    THEN [f EXCEPT !.timer = f.timer - 1, !.active = (f.timer - 1 > 0)]
    ELSE f

\* ------------------------------------------------------------------- Game
\* A different program: the tiers change one point later.
get_food_spawn_chancesLate(sc) ==
    IF sc <= 10 THEN <<85, 15, 0, 0>>
    ELSE IF sc <= 25 THEN <<70, 25, 5, 0>>
    ELSE IF sc <= 50 THEN <<60, 25, 12, 3>>
    ELSE <<50, 30, 15, 5>>

\* Game.get_food_spawn_chances
get_food_spawn_chances(sc) ==
    IF sc < 10 THEN <<85, 15, 0, 0>>
    ELSE IF sc < 25 THEN <<70, 25, 5, 0>>
    ELSE IF sc < 50 THEN <<60, 25, 12, 3>>
    ELSE <<50, 30, 15, 5>>

\* The tier Game.spawn_food picks for the draw rand = random.randint(1, 100).
FoodType(chances, rand) ==
    IF rand <= chances[1] THEN 1
    ELSE IF rand <= chances[1] + chances[2] THEN 2
    ELSE IF rand <= chances[1] + chances[2] + chances[3] THEN 3
    ELSE 4

\* Draws of random.randint(1, 100): both ends of every band of every table.
RandDraws == {1, 50, 51, 60, 61, 70, 71, 80, 81, 85, 86, 95, 96, 97, 98, 100}

\* A different program: the first draw is kept, on the snake or not.
SpawnCellsNoReroll(pos) == RandomCells

\* Where the reroll loop of Game.spawn_food can stop: Food.randomize_position
\* draws a grid cell, and the loop repeats while it is one of snake.positions.
\* When the snake covers every explored draw the loop stops on any other
\* free cell; it cannot stop when the snake covers the grid.
SpawnCells(pos) ==
    IF RandomCells \ Range(pos) # {} THEN RandomCells \ Range(pos)
    ELSE GridCells \ Range(pos)

\* The tiers Game.spawn_food may pick at score sc.
SpawnTypes(sc) == {FoodType(get_food_spawn_chances(sc), rand) : rand \in RandDraws}

\* The foods Game.spawn_food may append.
SpawnChoices(sc, pos) == {Food(t, p) : t \in SpawnTypes(sc), p \in SpawnCells(pos)}

\* Game.spawn_food.  With every grid cell under the snake the reroll loop
\* never ends: the program hangs.
spawn_food(s) ==
    IF SpawnCells(s.positions) = {}
    THEN {[s EXCEPT !.status = "hung"]}
    ELSE {[s EXCEPT !.foods = Append(@, f)] : f \in SpawnChoices(s.score, s.positions)}

\* spawn_food called in every state of S in which the program has not hung.
SpawnIn(S) == UNION {IF s.status # "hung" THEN spawn_food(s) ELSE {s} : s \in S}

\* A different program: the speed is not capped.
update_speedUncapped(s) ==
    [s EXCEPT !.current_speed = BASE_FPS + s.score \div SPEED_INTERVAL]

\* Game.update_speed
update_speed(s) ==
    [s EXCEPT !.current_speed = Min(BASE_FPS + s.score \div SPEED_INTERVAL, MAX_FPS)]

\* Game.__init__ (construction, and the re-entrant call of "main menu"):
\* a new Snake, a new LeaderBoard read from the file, two foods.  An
\* exception of load_scores leaves __init__ and ends the process.
Game_init(s) ==
    LET Made(lb) == [Snake_reset(s) EXCEPT !.foods = <<>>,
                                           !.game_over = FALSE,
                                           !.paused = FALSE,
                                           !.current_speed = BASE_FPS,
                                           !.scores = lb.scores,
                                           !.file = lb.file,
                                           !.score_submitted = FALSE,
                                           !.title_screen = TRUE,
                                           !.show_leaderboard = FALSE]
        loads == {load_scores(s.file, io) : io \in IoOutcomes}
        made == {Made(lb) : lb \in {l \in loads : l.raised = ""}}
        died == {[s EXCEPT !.status = lb.raised] : lb \in {l \in loads : l.raised # ""}}
    IN SpawnIn(SpawnIn(made)) \cup died

\* A different program: a restart adds two foods to those on the field.
restart_gameKeepFoods(s) ==
    LET s1 == [Snake_reset(s) EXCEPT !.game_over = FALSE,
                                     !.paused = FALSE,
                                     !.score_submitted = FALSE,
                                     !.current_speed = BASE_FPS]
    IN SpawnIn(spawn_food(s1))

\* A different program: a restart leaves score_submitted as it was.
restart_gameKeepSubmitted(s) ==
    LET s1 == [Snake_reset(s) EXCEPT !.foods = <<>>,
                                     !.game_over = FALSE,
                                     !.paused = FALSE,
                                     !.current_speed = BASE_FPS]
    IN SpawnIn(spawn_food(s1))

\* Game.restart_game
restart_game(s) ==
    LET s1 == [Snake_reset(s) EXCEPT !.foods = <<>>,
                                     !.game_over = FALSE,
                                     !.paused = FALSE,
                                     !.score_submitted = FALSE,
                                     !.current_speed = BASE_FPS]
    IN SpawnIn(spawn_food(s1))

\* pygame.Rect.colliderect of two BLOCK_SIZE squares with these corners.
colliderect(a, b) ==
    /\ a[1] < b[1] + BLOCK_SIZE
    /\ b[1] < a[1] + BLOCK_SIZE
    /\ a[2] < b[2] + BLOCK_SIZE
    /\ b[2] < a[2] + BLOCK_SIZE

\* Growth of snake.length per tier (snake_rush.py).
Growth(t) == CASE t = 2 -> 2 [] t = 3 -> 3 [] t = 4 -> 4 [] OTHER -> 1

\* Growth of snake.length per tier (snakerush.py).
snakerush_Growth(t) == CASE t = 2 -> 1 [] t = 3 -> 2 [] t = 4 -> 3 [] OTHER -> 1

\* A different program: every tier grows the snake by one.
GrowthOfOne(s, t) == 1

\* The growth of the running variant.
GrowthOf(s, t) == IF s.variant = "snake_rush" THEN Growth(t) ELSE snakerush_Growth(t)

\* self.foods after the expiry loop of Game.update.
RECURSIVE ExpireFoods(_)
ExpireFoods(fs) ==
    IF fs = <<>> THEN <<>>
    ELSE LET f == Food_update(Head(fs))
         IN IF f.active THEN <<f>> \o ExpireFoods(Tail(fs)) ELSE ExpireFoods(Tail(fs))

\* s.foods without its first element equal to f (list.remove).
RECURSIVE RemoveFood(_, _)
RemoveFood(fs, f) ==
    IF fs = <<>> THEN <<>>
    ELSE IF Head(fs) = f THEN Tail(fs)
    ELSE <<Head(fs)>> \o RemoveFood(Tail(fs), f)

\* One food eaten: removed, scored, grown, replaced, speed recomputed.
Eat(s, f) ==
    LET s1 == [s EXCEPT !.foods = RemoveFood(@, f),
                        !.score = @ + f.points,
                        !.length = @ + GrowthOf(s, f.type)]
    IN {IF s2.status # "hung" THEN update_speed(s2) ELSE s2 : s2 \in spawn_food(s1)}

\* The consumption loop of Game.update over the copy self.foods[:], from
\* its i-th element on.
RECURSIVE ConsumeFrom(_, _, _)
ConsumeFrom(s, copy, i) ==
    IF i > Len(copy) \/ s.status = "hung" THEN {s}
    ELSE IF colliderect(s.positions[1], copy[i].position) /\ copy[i].active
         THEN UNION {ConsumeFrom(s2, copy, i + 1) : s2 \in Eat(s, copy[i])}
         ELSE ConsumeFrom(s, copy, i + 1)

\* A different program: a food is added every two steps of the score.
min_foodsLate(sc) == Min(BASE_FOODS + (sc \div (2 * FOOD_STEP)), MAX_FOODS)

\* min_foods of Game.update
min_foods(sc) == Min(BASE_FOODS + (sc \div FOOD_STEP), MAX_FOODS)

\* A different program: no top-up after the consumption loop.
TopUpNever(s) == {s}

\* The top-up loop of Game.update.
RECURSIVE TopUp(_)
TopUp(s) ==
    IF s.status = "hung" \/ Len(s.foods) >= min_foods(s.score) THEN {s}
    ELSE UNION {TopUp(s2) : s2 \in spawn_food(s)}

\* A different program: the head/food test comes before the expiry loop.
AfterMoveEatFirst(s) ==
    UNION {TopUp([s2 EXCEPT !.foods = ExpireFoods(@)]) : s2 \in ConsumeFrom(s, s.foods, 1)}

\* Game.update while playing, after a move that did not collide.
AfterMove(s) ==
    LET s1 == [s EXCEPT !.foods = ExpireFoods(@)]
    IN UNION {TopUp(s2) : s2 \in ConsumeFrom(s1, s1.foods, 1)}

\* A different program: the early return forgets the title screen.
IdleUnlessTitle(s) == s.game_over \/ s.paused \/ s.show_leaderboard

\* A different program: the early return forgets the pause flag.
IdleUnlessPaused(s) == s.title_screen \/ s.game_over \/ s.show_leaderboard

\* No tick is played in these modes (the early return of Game.update).
Idle(s) == s.title_screen \/ s.game_over \/ s.paused \/ s.show_leaderboard

\* The dates datetime.now() may give, to the minute.
Dates == {1}

\* A different program: the score is cleared once it has been offered.
SubmitAndClear(s) ==
    IF is_high_score(s.scores, s.score)
    THEN {[s EXCEPT !.scores = lb.scores, !.file = lb.file, !.score_submitted = TRUE,
                    !.score = 0] :
            lb \in {add_score(s.scores, s.file, s.score, s.length, date, io) :
                        date \in Dates, io \in IoOutcomes}}
    ELSE {[s EXCEPT !.score_submitted = TRUE, !.score = 0]}

\* The score is offered to the leaderboard (the game-over branch of
\* Game.update).
Submit(s) ==
    IF is_high_score(s.scores, s.score)
    THEN {[s EXCEPT !.scores = lb.scores, !.file = lb.file, !.score_submitted = TRUE] :
            lb \in {add_score(s.scores, s.file, s.score, s.length, date, io) :
                        date \in Dates, io \in IoOutcomes}}
    ELSE {[s EXCEPT !.score_submitted = TRUE]}

\* A different program: the submission is not guarded by score_submitted.
GameOverOnly(s) == s.game_over

\* "if self.game_over and not self.score_submitted" in Game.update
NeedsSubmit(s) == s.game_over /\ ~s.score_submitted

\* A different program: the foods age on the tick of the collision too.
CollidedAndAged(s) == {[s EXCEPT !.game_over = TRUE, !.foods = ExpireFoods(@)]}

\* Game.update when Snake.update reports the collision: "self.game_over =
\* True", the music stops, return.
Collided(s) == {[s EXCEPT !.game_over = TRUE]}

\* Game.update
Game_update(s) ==
    IF Idle(s)
    THEN IF NeedsSubmit(s) THEN Submit(s) ELSE {s}
    ELSE LET u == Snake_update(s)
             s1 == [u.st EXCEPT !.ticks = @ + 1]
         IN IF u.ret
            THEN Collided(s1)
            ELSE AfterMove(s1)

\* ---------------------------------------------------------- handle_events
\* The keys told apart ("x": any key without a binding; w, s, a, d and
\* SPACE are bound like the arrows and RETURN).
Keys == {"UP", "DOWN", "LEFT", "RIGHT", "RETURN", "ESCAPE", "p", "r", "x"}

\* The direction a key asks for, <<0, 0>> for the other keys.
KeyDirection(key) ==
    CASE key \in {"UP", "w"} -> <<0, -1>>
      [] key \in {"DOWN", "s"} -> <<0, 1>>
      [] key \in {"LEFT", "a"} -> <<-1, 0>>
      [] key \in {"RIGHT", "d"} -> <<1, 0>>
      [] OTHER -> <<0, 0>>

\* A different program: closing the leaderboard also leaves the pause.
CloseLeaderboardAndResume(s) == [s EXCEPT !.show_leaderboard = FALSE, !.paused = FALSE]

\* "self.show_leaderboard = False" of the back commands.
CloseLeaderboard(s) == [s EXCEPT !.show_leaderboard = FALSE]

\* A different program: play resumes with the foods one tick older.
ResumeOlder(s) == [s EXCEPT !.paused = FALSE, !.foods = ExpireFoods(@)]

\* "self.paused = False" of the resume commands.
Resume(s) == [s EXCEPT !.paused = FALSE]

\* A different program: opening the leaderboard leaves the pause.
OpenLeaderboardUnpaused(s) == [s EXCEPT !.show_leaderboard = TRUE, !.paused = FALSE]

\* "self.show_leaderboard = True" of the two Leaderboard buttons.
OpenLeaderboard(s) == [s EXCEPT !.show_leaderboard = TRUE]

\* The KEYDOWN branch of Game.handle_events.
OnKeyDown(s, key) ==
    IF s.title_screen
    THEN IF key \in {"RETURN", "SPACE"} /\ ~s.show_leaderboard
         THEN {[s EXCEPT !.title_screen = FALSE]}
         ELSE IF key = "ESCAPE" /\ s.show_leaderboard
              THEN {CloseLeaderboard(s)}
              ELSE {s}
    ELSE IF s.show_leaderboard
    THEN IF key = "ESCAPE" THEN {CloseLeaderboard(s)} ELSE {s}
    ELSE IF s.paused
    THEN IF key = "ESCAPE" THEN {Resume(s)} ELSE {s}
    ELSE IF ~s.game_over /\ ~s.paused
    THEN CASE KeyDirection(key) # <<0, 0>> -> {change_direction(s, KeyDirection(key))}
           [] key = "ESCAPE" -> {[s EXCEPT !.paused = TRUE]}
           [] key = "p" -> {[s EXCEPT !.paused = ~s.paused]}
           [] key = "r" -> restart_game(s)
           [] OTHER -> {s}
    ELSE IF s.game_over
    THEN CASE key = "r" -> restart_game(s)
           [] key = "ESCAPE" ->
                {IF s2.status = "running" THEN [s2 EXCEPT !.title_screen = TRUE] ELSE s2 :
                    s2 \in Game_init(s)}
           [] OTHER -> {s}
    ELSE {s}

\* handle_events returns "show_credits": main() clears running, calls
\* game.update() once more and leaves its loop.  The process ends: the file
\* is what remains.
Leave(s) ==
    {IF s2.status = "hung" THEN s2 ELSE [Blank(s2.file) EXCEPT !.status = "exited"] :
        s2 \in Game_update(s)}

\* What a left click can land on: one of the button rectangles, the
\* "click here" restart text of the game-over screen, or nothing.  The
\* rectangles are taken not to overlap (they do not on a screen of 380
\* pixels or more in height).
ClickTargets == {"start_button", "title_leaderboard_button", "title_quit_button",
                 "back_button", "reset_scores_button", "resume_button",
                 "leaderboard_button", "restart_button", "quit_button",
                 "restart_text", "nothing"}

\* Game.show_confirmation_dialog: a modal loop that takes every event until
\* it returns True for Yes, False for No, "show_credits" for a QUIT event.
DialogAnswers == {"yes", "no", "quit"}

\* "confirm = self.show_confirmation_dialog(...); if confirm:
\* self.leaderboard.reset_scores()"; a non-empty string is true.  On the
\* title screen (redraw) a confirmed reset is followed by
\* "self.show_leaderboard = True".
Answered(s, redraw, ans) ==
    IF ans # "no"
    THEN {[s EXCEPT !.scores = lb.scores, !.file = lb.file,
                    !.show_leaderboard = (redraw \/ @)] :
             lb \in {reset_scores(s.file, io) : io \in IoOutcomes}}
    ELSE {s}

\* A click on the Reset Scores button: the dialog, and what follows its
\* answer.
ConfirmReset(s, redraw) == UNION {Answered(s, redraw, ans) : ans \in DialogAnswers}

\* The MOUSEBUTTONDOWN branch of Game.handle_events.
OnMouseButtonDown(s, hit) ==
    IF s.title_screen
    THEN IF ~s.show_leaderboard
         THEN CASE hit = "start_button" -> {[s EXCEPT !.title_screen = FALSE]}
                [] hit = "title_leaderboard_button" -> {OpenLeaderboard(s)}
                [] hit = "title_quit_button" -> Leave(s)
                [] OTHER -> {s}
         ELSE CASE hit = "back_button" -> {CloseLeaderboard(s)}
                [] hit = "reset_scores_button" -> ConfirmReset(s, TRUE)
                [] OTHER -> {s}
    ELSE IF s.paused /\ ~s.show_leaderboard
    THEN CASE hit = "resume_button" -> {Resume(s)}
           [] hit = "leaderboard_button" -> {OpenLeaderboard(s)}
           [] hit = "restart_button" ->
                {IF s2.status # "hung" THEN [s2 EXCEPT !.paused = FALSE] ELSE s2 :
                    s2 \in restart_game(s)}
           [] hit = "quit_button" ->
                {IF s2.status = "running"
                 THEN [s2 EXCEPT !.title_screen = TRUE, !.paused = FALSE] ELSE s2 :
                    s2 \in Game_init(s)}
           [] OTHER -> {s}
    ELSE IF s.show_leaderboard /\ hit = "back_button"
    THEN {CloseLeaderboard(s)}
    ELSE IF hit = "reset_scores_button"
    THEN ConfirmReset(s, FALSE)
    ELSE IF s.game_over
    THEN IF hit = "restart_text" THEN restart_game(s) ELSE {s}
    ELSE {s}

\* Window widths a VIDEORESIZE may report: the user drags the window to a
\* width that is not the grid-aligned one it opened with.
ResizeWidths == {GRID_WIDTH * BLOCK_SIZE - 10}

\* ---------------------------------------------------------------- actions

\* Exploration stops where the tick budget is used up with the game still
\* in play.
Running == status = "running" /\ (title_screen \/ game_over \/ ticks < MaxTicks)

KeyDown(key) ==
    /\ Running
    /\ \E s2 \in OnKeyDown(Cur, key) : Install(s2)

MouseButtonDown(hit) ==
    /\ Running
    /\ \E s2 \in OnMouseButtonDown(Cur, hit) : Install(s2)

\* VIDEORESIZE: fullscreen is never set in snake_rush.py, so the size is taken.
VideoResize(w) ==
    /\ Running
    /\ Install([Cur EXCEPT !.SCREEN_WIDTH = w])

\* QUIT
Quit ==
    /\ Running
    /\ \E s2 \in Leave(Cur) : Install(s2)

\* One call of Game.update from the main loop.
Update ==
    /\ Running
    /\ \E s2 \in Game_update(Cur) : Install(s2)

\* --------------------------------------------------------------- behaviour
\* The leaderboard file found at start-up.
BoardEntry(i) == [score |-> 2 + (MAX_ENTRIES - i) \div 3, length |-> 3, date |-> 1]
FullBoard == [i \in 1..MAX_ENTRIES |-> BoardEntry(i)]
InitFiles == {JsonDump(FullBoard)}

\* The program is in state s.
Holds(s) ==
    /\ positions = s.positions
    /\ direction = s.direction
    /\ next_direction = s.next_direction
    /\ length = s.length
    /\ score = s.score
    /\ foods = s.foods
    /\ game_over = s.game_over
    /\ paused = s.paused
    /\ title_screen = s.title_screen
    /\ show_leaderboard = s.show_leaderboard
    /\ score_submitted = s.score_submitted
    /\ current_speed = s.current_speed
    /\ scores = s.scores
    /\ file = s.file
    /\ SCREEN_WIDTH = s.SCREEN_WIDTH
    /\ SCREEN_HEIGHT = s.SCREEN_HEIGHT
    /\ status = s.status
    /\ variant = s.variant
    /\ ticks = s.ticks

\* game = Game() in main()
Constructed == UNION {Game_init(Blank(f)) : f \in InitFiles}

Init == \E s \in Constructed : Holds(s)

Next ==
    \/ \E key \in Keys : KeyDown(key)
    \/ \E hit \in ClickTargets : MouseButtonDown(hit)
    \/ \E w \in ResizeWidths : VideoResize(w)
    \/ Quit
    \/ Update

Spec == Init /\ [][Next]_vars

\* ------------------------------------------------------ the roomy session
\* Before play starts the window is dragged to RoomCells x RoomCells cells
\* (VIDEORESIZE takes both sizes): the snake wraps at the new edges.
RoomyInit ==
    \E s \in Constructed :
        Holds([s EXCEPT !.SCREEN_WIDTH = RoomCells * BLOCK_SIZE,
                        !.SCREEN_HEIGHT = RoomCells * BLOCK_SIZE])

SpecRoomy == RoomyInit /\ [][Next]_vars

\* ------------------------------------------------------- the late session
\* The states n calls of Game.update lead to from the states of S, with no
\* event in between.
RECURSIVE After(_, _)
After(S, n) ==
    IF n = 0 \/ S = {} THEN S ELSE After(UNION {Game_update(s) : s \in S}, n - 1)

\* RETURN on the title screen.
Started == UNION {OnKeyDown(s, "RETURN") : s \in Constructed}

\* The snake is turned upwards, leaves the row the foods are on after one
\* tick, is turned right and coasts along its row for LateTicks ticks: the
\* foods, both with a lifetime, are about to expire.
Coasted ==
    LET up == UNION {OnKeyDown(s, "UP") : s \in Started}
        right == UNION {OnKeyDown(s, "RIGHT") : s \in After(up, 1)}
    IN {s \in After(right, LateTicks) : \A i \in 1..Len(s.foods) : s.foods[i].type > 1}

\* The states n calls of Game.update lead to from the states of S when
\* each of them raises the score by 4 or more (two foods eaten).
RECURSIVE Feast(_, _)
Feast(S, n) ==
    IF n = 0 \/ S = {} THEN S
    ELSE Feast(UNION {{t \in Game_update(s) : t.score >= s.score + 4} : s \in S}, n - 1)

\* The snake goes straight on for three ticks and finds two foods on
\* every cell it enters: the score is about to pass FOOD_STEP, and the two
\* foods on the field are of the third tier, side by side with the head.
Feasted ==
    {s \in Feast(Started, 3) :
        /\ s.score >= FOOD_STEP - 3
        /\ \A i \in 1..Len(s.foods) :
              s.foods[i].type = 3 /\ s.foods[i].position[1] = s.positions[1][1]}

\* A session taken up late in play: MaxTicks more ticks are explored after
\* the coasting, one more after the feast.
LateInit ==
    \/ \E s \in Coasted : Holds([s EXCEPT !.ticks = 0])
    \/ \E s \in Feasted : Holds([s EXCEPT !.ticks = MaxTicks - 1])

SpecLate == LateInit /\ [][Next]_vars

\* -------------------------------------------------------- crowded session
\* After the feast of three ticks along its row the snake is turned
\* upwards, moves one tick, is turned right and moves one more: it has five
\* of the six cells under it, is longer than the grid, and one more tick is
\* explored.  (The sessions followed are those that read the leaderboard
\* file and stay below a score of FOOD_STEP, with two foods on the field.)
Crowded ==
    LET fed == {s \in Feast(Started, 3) : s.scores = FullBoard /\ s.score < FOOD_STEP}
        up == UNION {OnKeyDown(s, "UP") : s \in fed}
        risen == {s \in After(up, 1) : s.score < FOOD_STEP}
        right == UNION {OnKeyDown(s, "RIGHT") : s \in risen}
    IN {s \in After(right, 1) :
           /\ s.status = "running" /\ ~s.game_over
           /\ s.score < FOOD_STEP
           /\ Len(s.positions) = GRID_WIDTH * GRID_HEIGHT - 1
           /\ s.length >= GRID_WIDTH * GRID_HEIGHT}

CrowdedInit == \E s \in Crowded : Holds([s EXCEPT !.ticks = MaxTicks - 1])

SpecCrowded == CrowdedInit /\ [][Next]_vars

\* ------------------------------------------------------ leaderboard alone
\* The two source files that define LeaderBoard.
Variants == {"snake_rush", "snakerush"}

\* Leaderboard files found at start-up: none, text that is not JSON, JSON
\* of another shape, and lists that are empty, one short of full, full, and
\* longer than full and unsorted (edited by hand).
NineBoard == SubSeq(FullBoard, 1, MAX_ENTRIES - 1)
LongBoard == [i \in 1..(MAX_ENTRIES + 1) |-> [score |-> 1 + (i % 4), length |-> 3, date |-> 1]]
BoardFiles == {AbsentFile, MalformedFile, WrongShapeFile, JsonDump(<<>>),
               JsonDump(NineBoard), JsonDump(FullBoard), JsonDump(LongBoard)}

\* Scores and lengths add_score is called with.
AddScores == {-1, 0, 2, 3, 6}
AddLengths == {1}

\* The leaderboard call that returned lb (scores, file, exception) has
\* been made in state s.
Board(s, lb) ==
    IF lb.raised = ""
    THEN [s EXCEPT !.scores = lb.scores, !.file = lb.file]
    ELSE [s EXCEPT !.scores = lb.scores, !.file = lb.file, !.status = lb.raised]

\* LeaderBoard() of the running variant on the file of s.  When the
\* constructor raises, the new object is never bound: the scores are those
\* of the old one.
LeaderBoard_init(s, io) ==
    LET lb == IF s.variant = "snake_rush"
              THEN load_scores(s.file, io)
              ELSE snakerush_load_scores(s.file, io)
    IN IF lb.raised = "" THEN Board(s, lb)
       ELSE [s EXCEPT !.file = lb.file, !.status = lb.raised]

\* leaderboard.add_score(sc, len) of the running variant.
LeaderBoard_add_score(s, sc, len, date, io) ==
    IF s.variant = "snake_rush"
    THEN LET lb == add_score(s.scores, s.file, sc, len, date, io)
         IN Board(s, [scores |-> lb.scores, file |-> lb.file, raised |-> ""])
    ELSE Board(s, snakerush_add_score(s.scores, s.file, sc, len, date, io))

BoardInit ==
    \E v \in Variants, f \in BoardFiles, io \in IoOutcomes :
        Holds(LeaderBoard_init([Blank(f) EXCEPT !.variant = v], io))

BoardAdd(sc, len) ==
    /\ status = "running"
    /\ \E date \in Dates, io \in IoOutcomes :
          Install(LeaderBoard_add_score(Cur, sc, len, date, io))

\* The call pattern of Game.update: add_score only after is_high_score.
BoardOffer(sc, len) ==
    /\ status = "running"
    /\ is_high_score(scores, sc)
    /\ \E date \in Dates, io \in IoOutcomes :
          Install(LeaderBoard_add_score(Cur, sc, len, date, io))

\* reset_scores exists in snake_rush.py only.
BoardReset ==
    /\ status = "running"
    /\ variant = "snake_rush"
    /\ \E io \in IoOutcomes :
          LET lb == reset_scores(file, io)
          IN Install([Cur EXCEPT !.scores = lb.scores, !.file = lb.file])

\* A new LeaderBoard() replaces the old one (Game.__init__ run again).
BoardReload ==
    /\ status = "running"
    /\ \E io \in IoOutcomes : Install(LeaderBoard_init(Cur, io))

BoardNext ==
    \/ \E sc \in AddScores, len \in AddLengths : BoardAdd(sc, len)
    \/ \E sc \in AddScores, len \in AddLengths : BoardOffer(sc, len)
    \/ BoardReset
    \/ BoardReload

SpecBoard == BoardInit /\ [][BoardNext]_vars

\* --------------------------------------------------------- scoring session
\* The scores the scoring functions are given (get_food_spawn_chances,
\* update_speed, min_foods take self.snake.score).
MaxScore == 65

\* A game in play that has reached score sc on first-tier foods, one tick
\* after its last meal: the head is back on the starting cell, the speed
\* is the one update_speed computed at that meal, and the two foods on
\* the field were spawned at this score: one of any tier on the cell the
\* head enters next, a first-tier one elsewhere.
Scored(sc) ==
    LET s0 == CHOOSE s \in Started : s.scores = FullBoard
        s1 == update_speed([s0 EXCEPT !.score = sc, !.length = sc + 1,
                                      !.foods = <<>>, !.ticks = MaxTicks - 1])
    IN {s \in SpawnIn(spawn_food(s1)) :
           /\ s.foods[1].position = NewHead(s.positions, s.direction,
                                             s.SCREEN_WIDTH, s.SCREEN_HEIGHT)
           /\ s.foods[2].position # s.foods[1].position
           /\ s.foods[2].type = 1}

\* The scoring functions take every score up to MaxScore; one more tick is
\* played from there.
ScoreInit == \E sc \in 0..MaxScore : \E s \in Scored(sc) : Holds(s)

SpecScore == ScoreInit /\ [][Next]_vars

\* ------------------------------------------------------------ meals alone
\* Game.update of either variant (the two differ in the growth per tier),
\* called frame after frame with no event in between: from a game just
\* started, and from a game at every score up to MaxScore.
MealInit ==
    \E v \in Variants :
        \/ \E s \in Started : Holds([s EXCEPT !.variant = v])
        \/ \E sc \in 0..MaxScore : \E s \in Scored(sc) : Holds([s EXCEPT !.variant = v])

MealNext == Update

SpecMeal == MealInit /\ [][MealNext]_vars

\* ================================================================= claims
\* The step is a tick: Game.update got past its early return and called
\* Snake.update (with or without a collision).
TickStep == ticks' = ticks + 1

\* Head + committed direction, wrapped: the cell Snake.update computes in
\* the state before the tick (next_direction is what the tick commits).
ComputedHead ==
    <<(positions[1][1] + next_direction[1] * BLOCK_SIZE) % SCREEN_WIDTH,
      (positions[1][2] + next_direction[2] * BLOCK_SIZE) % SCREEN_HEIGHT>>

\* The new head is an element of positions[1:] as it is before the move.
HeadInOldBody == \E i \in 2..Len(positions) : positions[i] = ComputedHead

\* C1: Snake.update reports a collision (Game.update then sets game_over)
\* if and only if the computed new head equals an element of positions[1:]
\* before the move; otherwise the head is prepended.
C1_CollisionIff ==
    [][TickStep =>
        /\ game_over' = HeadInOldBody
        /\ ~HeadInOldBody => positions'[1] = ComputedHead
        /\ HeadInOldBody => positions' = positions]_vars

\* C1 witness: a tick has reported a collision.
C1_Witness == game_over /\ ~score_submitted /\ ticks = MaxTicks

\* Playing mode: no title screen, no pause, no overlay, not game over.
Playing == ~title_screen /\ ~paused /\ ~show_leaderboard /\ ~game_over

\* C2: game_over goes from False to True in a step exactly when the step is
\* a Game.update call in Playing mode whose Snake.update reported a
\* collision; no event and no other path of update sets it.
C2_GameOverExactly ==
    [][(~game_over /\ game_over') <=> (Playing /\ TickStep /\ HeadInOldBody)]_vars

\* C2 witness: the session is in GameOver, entered from play.
C2_Witness == game_over /\ ~title_screen /\ ~paused /\ ~show_leaderboard /\ length > 1

\* C3: the session leaves GameOver (and keeps running) only after the final
\* score has been offered to the leaderboard, whatever events arrive after
\* the collision.
C3_OfferedBeforeLeaving ==
    [][(game_over /\ ~game_over' /\ status' = "running") => score_submitted]_vars

\* The entry add_score appends for the current score and length.
NewEntry(date) == [score |-> score, length |-> length, date |-> date]

\* C4: while the state remains GameOver, every Game.update leaves
\* score_submitted set; the first one adds one entry when
\* is_high_score(score) holds and score > 0 and adds nothing otherwise, and
\* the later ones leave the leaderboard and its file unchanged;
\* score_submitted stays set for as long as the state remains GameOver.
C4_AtMostOneEntry ==
    [][/\ (Update /\ game_over) =>
            /\ score_submitted' /\ game_over'
            /\ IF ~score_submitted /\ is_high_score(scores, score) /\ score > 0
               THEN \E date \in Dates :
                        scores' = Top10(SortDesc(Append(scores, NewEntry(date))))
               ELSE scores' = scores /\ file' = file
       /\ (game_over /\ game_over' /\ score_submitted) => score_submitted']_vars

\* C4 witness: GameOver with the score submitted and an entry for it on
\* the leaderboard.
C4_Witness ==
    /\ game_over /\ score_submitted
    /\ \E i \in 1..Len(scores) : scores[i].score = score /\ scores[i].length = length

\* C5 as stated: a completed tick in which no food was consumed ends with
\* len(positions) equal to the target length.
C5_EqualAfterNextTick ==
    [][(TickStep /\ ~game_over' /\ score' = score) => Len(positions') = length']_vars

\* C5: a completed tick adds one segment while len(positions) is below the
\* target length it started with and none otherwise, the target length
\* never shrinks, and len(positions) is never above it; growth by g takes g
\* ticks to show.
C5_OneSegmentPerTick ==
    [][(TickStep /\ ~game_over') =>
        /\ Len(positions') = Min(Len(positions) + 1, length)
        /\ length' >= length
        /\ Len(positions') <= length']_vars

\* C5 witness: two ticks after the start, a two-point score has raised the
\* target length to 3 and the snake has 2 segments.
C5_Witness ==
    ticks = 2 /\ score = 2 /\ length = 3 /\ Len(positions) = 2 /\ ~game_over

\* The inverse of a direction.
Inverse(d) == <<d[1] * (-1), d[2] * (-1)>>

\* C6: next_direction is never the inverse of direction, and the direction
\* a tick commits is never the inverse of the direction before it.
C6_NeverInverse ==
    /\ [](status = "running" => next_direction # Inverse(direction))
    /\ [][TickStep => direction' # Inverse(direction)]_vars

\* C6 witness: after a tick that turned the snake upwards, a request to
\* turn right is pending.
C6_Witness ==
    status = "running" /\ ticks > 0 /\ direction = <<0, -1>> /\ next_direction = <<1, 0>>

\* C7: in every reachable state change_direction(d) changes nothing when d
\* is the inverse of direction, and sets next_direction = d and nothing
\* else for the other three unit directions.
C7_ChangeDirectionFrame ==
    status = "running" =>
        \A d \in Directions :
            change_direction(Cur, d) =
                IF d = Inverse(direction) THEN Cur ELSE [Cur EXCEPT !.next_direction = d]

\* C7 witness: in play before the first tick, a request to turn downwards
\* has been taken.
C7_Witness ==
    /\ ~title_screen /\ ~game_over /\ ticks = 0
    /\ direction = <<1, 0>> /\ next_direction = <<0, 1>>

\* C8: the head is a grid cell of the playfield in every reachable state.
C8_HeadInGrid == positions # <<>> => positions[1] \in GridCells

\* C8 witness of the failing case: the head after a tick in a resized window.
C8_HeadOffGrid == positions # <<>> /\ positions[1] \notin GridCells

\* C9: the food spawn_food appends is on no element of snake.positions:
\* this holds of every call made from a reachable state, and every food on
\* the field is off the snake.
C9_SpawnOffSnake ==
    status = "running" =>
        /\ \A s2 \in spawn_food(Cur) :
                s2.status # "hung" =>
                    s2.foods[Len(s2.foods)].position \notin Range(s2.positions)
        /\ \A i \in 1..Len(foods) : foods[i].position \notin Range(positions)

\* C9 witness: a food was spawned while the snake lay on every cell of the
\* row the draws were made in, and is on another row.
C9_Witness ==
    /\ status = "running" /\ Len(positions) = GRID_WIDTH
    /\ \E i \in 1..Len(foods) : foods[i].position[2] \notin {y * BLOCK_SIZE : y \in RandomRows}

\* The number of active foods.
ActiveFoods == Cardinality({i \in 1..Len(foods) : foods[i].active})

\* C10: at session start, after a restart and after every completed tick
\* that did not end the game, at least min(2 + score // 15, 4) foods are
\* active.
C10_MinFoods == status = "running" => ActiveFoods >= Min(2 + score \div 15, 4)

\* C10 witness: the score has passed 15 and a third food is on the field.
C10_Witness == status = "running" /\ score >= 15 /\ ActiveFoods >= 3 /\ ticks > 0

\* C11: get_food_spawn_chances is the step function of the score with the
\* tables [85,15,0,0] below 10, [70,25,5,0] from 10 to 24, [60,25,12,3]
\* from 25 to 49 and [50,30,15,5] from 50 on; every entry is non-negative,
\* the entries sum to 100, and spawn_food picks exactly the tiers whose
\* entry is positive.
C11_Table ==
    CASE score \in 0..9 -> <<85, 15, 0, 0>>
      [] score \in 10..24 -> <<70, 25, 5, 0>>
      [] score \in 25..49 -> <<60, 25, 12, 3>>
      [] score >= 50 -> <<50, 30, 15, 5>>

C11_SpawnChances ==
    LET chances == get_food_spawn_chances(score)
    IN /\ chances = C11_Table
       /\ \A i \in 1..4 : chances[i] >= 0
       /\ chances[1] + chances[2] + chances[3] + chances[4] = 100
       /\ SpawnTypes(score) = {i \in 1..4 : C11_Table[i] > 0}

\* A meal took the score to 50 and the food spawned in its place is of the
\* fourth tier.
C11_Witness ==
    /\ score = 50
    /\ ticks = MaxTicks
    /\ \E i \in 1..Len(foods) : foods[i].type = 4

\* C12: between handlers current_speed equals
\* min(BASE_FPS + score // SPEED_INTERVAL, MAX_FPS); it lies in
\* BASE_FPS..MAX_FPS and is MAX_FPS from score 60 on.  (A program hung in
\* spawn_food never leaves the handler.)
C12_SpeedOfScore ==
    status # "hung" =>
        /\ current_speed = Min(BASE_FPS + score \div SPEED_INTERVAL, MAX_FPS)
        /\ current_speed \in BASE_FPS..MAX_FPS
        /\ (score >= 60 => current_speed = MAX_FPS)

\* A meal at a score of 60 or more: the speed stays at the cap.
C12_Witness ==
    /\ score >= 60
    /\ ticks = MaxTicks
    /\ current_speed = MAX_FPS
    /\ status = "running"

\* C13: after construction and after any sequence of add_score,
\* reset_scores and reload, the scores list has at most 10 entries and is
\* sorted by score in non-increasing order.
C13_Top10Sorted ==
    /\ Len(scores) <= MAX_ENTRIES
    /\ \A i \in 1..(Len(scores) - 1) : scores[i].score >= scores[i + 1].score

\* A full board that holds an added entry on top of entries of the file.
C13_Witness ==
    /\ status = "running"
    /\ Len(scores) = MAX_ENTRIES
    /\ scores[1] = [score |-> 6, length |-> 1, date |-> 1]
    /\ scores[MAX_ENTRIES].length = 3

\* C14: add_score(score, length) with score <= 0 is a no-op: the scores
\* list is unchanged and the file is not written (in either variant,
\* whatever the write would have done).
C14_NonPositiveNoOp ==
    status = "running" =>
        \A sc \in {a \in AddScores : a <= 0}, len \in AddLengths,
           date \in Dates, io \in IoOutcomes :
            LeaderBoard_add_score(Cur, sc, len, date, io) = Cur

\* The file is behind the list in memory (an earlier write failed), so a
\* write would show; add_score(0, 1) leaves both as they are.
C14_Witness ==
    /\ status = "running"
    /\ scores # <<>>
    /\ Len(scores) < MAX_ENTRIES
    /\ file # JsonDump(scores)
    /\ LeaderBoard_add_score(Cur, 0, 1, 1, "ok") = Cur

\* C15: is_high_score(score) is True exactly when the leaderboard holds
\* fewer than 10 entries or score is strictly greater than the minimum
\* stored score (some stored score is below it); with 10 entries the
\* minimum itself gives False and the minimum plus one gives True.
C15_HighScoreIff ==
    /\ \A sc \in -1..7 :
          is_high_score(scores, sc) <=>
              (Len(scores) < MAX_ENTRIES \/ \E i \in 1..Len(scores) : scores[i].score < sc)
    /\ Len(scores) = MAX_ENTRIES =>
          /\ ~is_high_score(scores, scores[MAX_ENTRIES].score)
          /\ is_high_score(scores, scores[MAX_ENTRIES].score + 1)

\* A full board after an insertion: its minimum does not qualify, the
\* minimum plus one does.
C15_Witness ==
    /\ status = "running"
    /\ Len(scores) = MAX_ENTRIES
    /\ \E i \in 1..Len(scores) : scores[i].length = 1
    /\ ~is_high_score(scores, scores[MAX_ENTRIES].score)
    /\ is_high_score(scores, scores[MAX_ENTRIES].score + 1)

\* The sequence sc without its k-th element.
Without(sc, k) == SubSeq(sc, 1, k - 1) \o SubSeq(sc, k + 1, Len(sc))

\* self.scores after add_score(s, len) in the current state.
Added(s, len, date, io) == LeaderBoard_add_score(Cur, s, len, date, io).scores

\* C16: add_score(s, L) with s > 0 on a board of 10 entries whose minimum
\* is below s leaves the new entry in the list and evicts exactly one entry
\* with the old minimum score, every other old entry keeping its place
\* relative to the others; with fewer than 10 entries nothing is evicted.
C16_EvictsOneMinimum ==
    status = "running" =>
        \A s \in {a \in AddScores : a > 0}, len \in AddLengths,
           date \in Dates, io \in IoOutcomes :
            LET new == Added(s, len, date, io)
                entry == [score |-> s, length |-> len, date |-> date]
            IN /\ (Len(scores) = MAX_ENTRIES /\ MinScore(scores) < s) =>
                    /\ Len(new) = MAX_ENTRIES
                    /\ \E k \in 1..Len(new), j \in 1..Len(scores) :
                          /\ new[k] = entry
                          /\ scores[j].score = MinScore(scores)
                          /\ Without(new, k) = Without(scores, j)
               /\ Len(scores) < MAX_ENTRIES =>
                    /\ Len(new) = Len(scores) + 1
                    /\ \E k \in 1..Len(new) :
                          new[k] = entry /\ Without(new, k) = scores

\* A full board with a tie on its minimum 2, an entry of another game
\* among the ties: add_score(3, 1) evicts one of the two and keeps the other.
C16_Witness ==
    /\ status = "running"
    /\ Len(scores) = MAX_ENTRIES
    /\ scores[MAX_ENTRIES - 1] = [score |-> 2, length |-> 3, date |-> 1]
    /\ scores[MAX_ENTRIES] = [score |-> 2, length |-> 1, date |-> 1]
    /\ Added(3, 1, 1, "ok")[MAX_ENTRIES] = scores[MAX_ENTRIES - 1]
    /\ \E k \in 1..MAX_ENTRIES : Added(3, 1, 1, "ok")[k] = [score |-> 3, length |-> 1, date |-> 1]

\* C17: constructing the leaderboard never aborts: with the file absent,
\* unreadable, not JSON, or JSON of the wrong shape, load_scores completes
\* without raising and leaves scores empty.
C17_LoadNeverAborts ==
    status = "running" =>
        \A io \in IoOutcomes :
            (file.kind \in {"absent", "malformed", "wrong_shape"} \/ io = "open_failed") =>
                /\ LeaderBoard_init(Cur, io).status = "running"
                /\ LeaderBoard_init(Cur, io).scores = <<>>

\* The constructor has raised on a file that is JSON of the wrong shape.
C17_LoadRaised ==
    /\ status = "load_raised"
    /\ file = WrongShapeFile

\* C18: a failure to write the leaderboard file during add_score, or while
\* the missing file is created at load, is never propagated: no call ends
\* in the exception of the write, and add_score with a failing write
\* returns with the session running and the list sorted, at most 10 long.
C18_WriteFailureContained ==
    /\ status # "save_raised"
    /\ status = "running" =>
          \A sc \in AddScores, len \in AddLengths, date \in Dates :
              LET s == LeaderBoard_add_score(Cur, sc, len, date, "open_failed")
              IN /\ s.status = "running"
                 /\ Len(s.scores) <= MAX_ENTRIES
                 /\ \A i \in 1..(Len(s.scores) - 1) :
                       s.scores[i].score >= s.scores[i + 1].score

\* snakerush.py has left add_score with the exception of the write, the new
\* entry in the list and the file as it was.
C18_SaveRaised ==
    /\ status = "save_raised"
    /\ variant = "snakerush"
    /\ scores # <<>>
    /\ file # JsonDump(scores)

\* The step is the main-menu command: ESC on the game-over screen or the
\* Main Menu button of the pause menu.
MainMenuStep ==
    \/ game_over /\ ~title_screen /\ ~show_leaderboard /\ ~paused /\ KeyDown("ESCAPE")
    \/ paused /\ ~title_screen /\ ~show_leaderboard /\ MouseButtonDown("quit_button")

\* C19: the main-menu command puts the session on the title screen with a
\* fresh snake (length 1, score 0), a fresh food set and game_over, paused
\* and score_submitted all False, and the in-memory leaderboard entries
\* after the command are exactly those before it.
C19_MainMenuKeepsBoard ==
    [][MainMenuStep =>
          /\ title_screen' /\ ~game_over' /\ ~paused' /\ ~score_submitted'
          /\ length' = 1 /\ score' = 0 /\ Len(positions') = 1
          /\ Len(foods') = BASE_FOODS
          /\ scores' = scores]_vars

\* Game over with the score entered in memory and the write failed: the
\* file still holds the old board, and ESC brings the old board back.
C19_EntryLost ==
    /\ status = "running"
    /\ game_over /\ score_submitted /\ ~show_leaderboard
    /\ \E i \in 1..Len(scores) : scores[i].length # 3
    /\ file = JsonDump(FullBoard)
    /\ \E s2 \in OnKeyDown(Cur, "ESCAPE") :
          s2.title_screen /\ s2.scores = FullBoard /\ s2.scores # scores

\* The states one key or one click can leave behind from state s.
AfterOneEvent(s) ==
    UNION ({OnKeyDown(s, key) : key \in Keys} \cup
           {OnMouseButtonDown(s, hit) : hit \in ClickTargets})

\* Some command opens the leaderboard view from the current state and
\* changes nothing else.
ViewOpens == [Cur EXCEPT !.show_leaderboard = TRUE] \in AfterOneEvent(Cur)

\* The Back button and ESC both close the view s and change nothing else.
BackCloses(s) ==
    /\ OnKeyDown(s, "ESCAPE") = {[s EXCEPT !.show_leaderboard = FALSE]}
    /\ OnMouseButtonDown(s, "back_button") = {[s EXCEPT !.show_leaderboard = FALSE]}

\* C20 as stated: from each of GameOver, Paused and TitleScreen a view
\* command opens the leaderboard view, and Back or ESC closes it again
\* with the mode, snake, foods, score and speed as before the round trip.
C20_ViewFromEachMode ==
    (status = "running" /\ ~show_leaderboard /\ (game_over \/ paused \/ title_screen)) =>
        /\ ViewOpens
        /\ BackCloses([Cur EXCEPT !.show_leaderboard = TRUE])

\* C20, amended: the view opens from Paused and from TitleScreen, Back and
\* ESC close it with everything else as before the round trip, and no key or
\* click opens it from GameOver.
C20_ViewFromPausedAndTitle ==
    /\ (status = "running" /\ ~show_leaderboard /\ (paused \/ title_screen)) =>
          /\ ViewOpens
          /\ BackCloses([Cur EXCEPT !.show_leaderboard = TRUE])
    /\ (status = "running" /\ show_leaderboard) => BackCloses(Cur)
    /\ (status = "running" /\ game_over /\ ~title_screen) =>
          /\ ~show_leaderboard
          /\ \A s2 \in AfterOneEvent(Cur) : ~s2.show_leaderboard

\* The view has been opened from the pause menu of a game with a meal
\* behind it; ESC leads back to the pause menu.
C20_Witness ==
    /\ status = "running"
    /\ show_leaderboard /\ paused /\ ~title_screen
    /\ score > 0
    /\ OnKeyDown(Cur, "ESCAPE") = {[Cur EXCEPT !.show_leaderboard = FALSE]}

\* The points and the growth the tiers are said to give.
TierPoints(t) == CASE t = 1 -> 1 [] t = 2 -> 2 [] t = 3 -> 3 [] t = 4 -> 5
TierGrowth(v, t) ==
    IF v = "snake_rush"
    THEN CASE t = 1 -> 1 [] t = 2 -> 2 [] t = 3 -> 3 [] t = 4 -> 4
    ELSE CASE t = 1 -> 1 [] t = 2 -> 1 [] t = 3 -> 2 [] t = 4 -> 3

\* The points and the growth of the foods of fs that the square at head
\* overlaps.
RECURSIVE PointsOn(_, _)
PointsOn(fs, head) ==
    IF fs = <<>> THEN 0
    ELSE (IF colliderect(head, Head(fs).position) THEN TierPoints(Head(fs).type) ELSE 0)
         + PointsOn(Tail(fs), head)

RECURSIVE GrowthOn(_, _, _)
GrowthOn(v, fs, head) ==
    IF fs = <<>> THEN 0
    ELSE (IF colliderect(head, Head(fs).position) THEN TierGrowth(v, Head(fs).type) ELSE 0)
         + GrowthOn(v, Tail(fs), head)

\* C21: a tick that does not end the game adds, for every food consumed,
\* the tier's points (1, 2, 3, 5) to score and the variant's growth
\* (snake_rush.py 1, 2, 3, 4; snakerush.py 1, 1, 2, 3) to length, and leaves
\* the speed recomputed from the new score; three first-tier pickups from
\* a fresh snake give length 4, score 3 and speed 8.
C21_MealAddsTierValues ==
    [][(TickStep /\ ~game_over' /\ status' = "running") =>
          LET met == ExpireFoods(foods)
          IN /\ score' = score + PointsOn(met, positions'[1])
             /\ length' = length + GrowthOn(variant, met, positions'[1])
             /\ current_speed' = Min(BASE_FPS + score' \div SPEED_INTERVAL, MAX_FPS)
             /\ (ticks' = 3 /\ score' = 3 /\ length = 3 /\ score = 2) =>
                    (length' = 4 /\ current_speed' = BASE_FPS)]_vars

\* Three ticks of snakerush.py from the start, a first-tier food eaten in
\* each (a higher tier would give more points than growth).
C21_Witness ==
    /\ variant = "snakerush"
    /\ ticks = 3 /\ score = 3 /\ length = 4
    /\ current_speed = BASE_FPS

\* The lifetime of a tier in ticks, 0 for none.
Lifetime(t) == CASE t = 2 -> 150 [] t = 3 -> 100 [] t = 4 -> 80 [] OTHER -> 0

\* A food as it is spawned: the whole lifetime ahead of it.
Fresh(f) == f.active /\ f.timer = Lifetime(f.type)

\* The foods of fs a non-terminal tick with the head on head keeps, one
\* tick older: those not in the last tick of their lifetime and not under
\* the head.
RECURSIVE KeptFoods(_, _)
KeptFoods(fs, head) ==
    IF fs = <<>> THEN <<>>
    ELSE LET f == Head(fs)
             aged == IF f.type = 1 THEN f ELSE [f EXCEPT !.timer = @ - 1]
         IN IF (f.type > 1 /\ f.timer = 1) \/ colliderect(head, f.position)
            THEN KeptFoods(Tail(fs), head)
            ELSE <<aged>> \o KeptFoods(Tail(fs), head)

\* C22: a first-tier food is never removed by expiry; a food of tier 2, 3
\* or 4 is spawned with 150, 100 or 80 ticks to live, loses one with every
\* non-terminal playing tick and is removed in the tick that takes the last;
\* no other step changes a countdown (a step outside a tick changes the
\* foods only by replacing them with two new ones).
C22_ExpiryByTicks ==
    /\ [][(TickStep /\ ~game_over' /\ status' = "running") =>
              LET kept == KeptFoods(foods, positions'[1])
              IN /\ Len(foods') >= Len(kept)
                 /\ SubSeq(foods', 1, Len(kept)) = kept
                 /\ \A i \in (Len(kept) + 1)..Len(foods') : Fresh(foods'[i])]_vars
    /\ [][(TickStep /\ game_over') => foods' = foods]_vars
    /\ [][(~TickStep /\ status' = "running" /\ foods' # foods) =>
              (Len(foods') = BASE_FOODS /\ \A i \in 1..Len(foods') : Fresh(foods'[i]))]_vars
    /\ [](\A i \in 1..Len(foods) :
              /\ foods[i].active
              /\ foods[i].timer \in (IF foods[i].type = 1 THEN {0} ELSE 1..Lifetime(foods[i].type)))

\* Two ticks after 148 ticks of coasting along the top row the second-tier
\* foods of the start have gone, nothing was eaten, and a new second-tier
\* food has its whole lifetime ahead.
C22_Witness ==
    /\ status = "running" /\ ~title_screen /\ ~game_over
    /\ ticks = 2 /\ score = 0
    /\ positions[1][2] = 0
    /\ \E i \in 1..Len(foods) : foods[i].type = 2 /\ foods[i].timer = TIMER_2

\* The points of the foods of fs whose cell is exactly the cell head.
RECURSIVE PointsAt(_, _)
PointsAt(fs, head) ==
    IF fs = <<>> THEN 0
    ELSE (IF Head(fs).position = head THEN TierPoints(Head(fs).type) ELSE 0)
         + PointsAt(Tail(fs), head)

\* C23: a food is consumed in a tick if and only if the cell of the head
\* after the move is exactly the cell of the food (the score grows by the
\* points of the foods on the head's cell and of no other), and the
\* rectangle test agrees with cell equality for every head and food on the
\* field, resized windows included.
C23_ConsumedIffSameCell ==
    /\ [][(TickStep /\ ~game_over' /\ status' = "running") =>
              score' = score + PointsAt(ExpireFoods(foods), positions'[1])]_vars
    /\ [](\A i \in 1..Len(foods) :
              positions # <<>> =>
                  (colliderect(positions[1], foods[i].position)
                      <=> positions[1] = foods[i].position))

\* In a resized window the head is off the grid and its square overlaps
\* the square of a food on another cell.
C23_OverlapOffCell ==
    /\ status = "running" /\ ~title_screen /\ ~game_over
    /\ SCREEN_WIDTH # GRID_WIDTH * BLOCK_SIZE
    /\ \E i \in 1..Len(foods) :
          /\ colliderect(positions[1], foods[i].position)
          /\ positions[1] # foods[i].position

\* C24: spawn_food terminates in every reachable state, also when the
\* snake occupies every cell of the grid: no call of it is left running.
C24_SpawnFoodReturns == status # "hung"

\* The snake covers the grid and the reroll loop of spawn_food has no cell
\* to stop on.
C24_Hung ==
    /\ status = "hung"
    /\ GridCells \subseteq Range(positions)

\* The state the step leads to, as one record.
Reached ==
    [positions |-> positions', direction |-> direction',
     next_direction |-> next_direction', length |-> length', score |-> score',
     foods |-> foods', game_over |-> game_over', paused |-> paused',
     title_screen |-> title_screen', show_leaderboard |-> show_leaderboard',
     score_submitted |-> score_submitted', current_speed |-> current_speed',
     scores |-> scores', file |-> file', SCREEN_WIDTH |-> SCREEN_WIDTH',
     SCREEN_HEIGHT |-> SCREEN_HEIGHT', status |-> status', variant |-> variant',
     ticks |-> ticks']

\* The step is a restart command: r in play or on the game-over screen,
\* the Restart button of the pause menu, or a click on the restart text of
\* the game-over screen.
RestartStep ==
    \/ ~title_screen /\ ~show_leaderboard /\ ~paused /\ Reached \in OnKeyDown(Cur, "r")
    \/ /\ paused /\ ~title_screen /\ ~show_leaderboard
       /\ Reached \in OnMouseButtonDown(Cur, "restart_button")
    \/ /\ game_over /\ ~title_screen /\ ~paused
       /\ Reached \in OnMouseButtonDown(Cur, "restart_text")

\* C25: within one session (between two resets by restart or re-init) score
\* never decreases and stays >= 0, and snake.length never decreases and
\* stays >= 1, across every tick and input event: a step that lowers one
\* of them is a restart or the main-menu command (or ends the process).
C25_ScoreAndLengthGrow ==
    /\ [][IF score' >= score /\ length' >= length THEN TRUE
          ELSE \/ status' = "exited"
               \/ title_screen' /\ MainMenuStep
               \/ ~title_screen' /\ RestartStep]_vars
    /\ [](score >= 0 /\ length >= 1)

\* A game that ended with two meals behind it and whose score has been
\* offered to the leaderboard.
C25_Witness ==
    /\ status = "running"
    /\ game_over /\ score_submitted
    /\ score >= 2 /\ length >= 3

\* C26: in play ESC and P set paused and nothing else; while paused
\* update() changes nothing, and ESC and the Resume button clear paused and
\* nothing else, so play resumes with the snake, the foods, their timers,
\* the score and the speed as they were when the pause began.
C26_PauseKeepsGame ==
    /\ (status = "running" /\ ~title_screen /\ ~show_leaderboard /\ ~paused /\ ~game_over) =>
          /\ OnKeyDown(Cur, "ESCAPE") = {[Cur EXCEPT !.paused = TRUE]}
          /\ OnKeyDown(Cur, "p") = {[Cur EXCEPT !.paused = TRUE]}
    /\ (status = "running" /\ ~title_screen /\ ~show_leaderboard /\ paused) =>
          /\ Game_update(Cur) = {Cur}
          /\ OnKeyDown(Cur, "ESCAPE") = {[Cur EXCEPT !.paused = FALSE]}
          /\ OnMouseButtonDown(Cur, "resume_button") = {[Cur EXCEPT !.paused = FALSE]}
          /\ ~game_over

\* A pause in the middle of play: a meal behind, a turn pending and a food
\* part of the way through its lifetime.
C26_Witness ==
    /\ status = "running"
    /\ paused /\ ~title_screen /\ ~show_leaderboard
    /\ score > 0 /\ ticks >= 2
    /\ next_direction # direction
    /\ \E i \in 1..Len(foods) : foods[i].type > 1 /\ foods[i].timer < Lifetime(foods[i].type)

\* The state a game starts in, with everything restart_game does not touch
\* taken from s.
InitialPlay(r, s) ==
    /\ r.positions = <<<<(GRID_WIDTH \div 2) * BLOCK_SIZE, (GRID_HEIGHT \div 2) * BLOCK_SIZE>>>>
    /\ r.direction = <<1, 0>> /\ r.next_direction = <<1, 0>>
    /\ r.length = 1 /\ r.score = 0
    /\ Len(r.foods) = BASE_FOODS
    /\ r.current_speed = BASE_FPS
    /\ ~r.game_over /\ ~r.paused /\ ~r.score_submitted
    /\ r.scores = s.scores /\ r.file = s.file
    /\ r.status = "running"
    /\ r = [s EXCEPT !.positions = r.positions, !.direction = r.direction,
                     !.next_direction = r.next_direction, !.length = 1, !.score = 0,
                     !.foods = r.foods, !.current_speed = BASE_FPS, !.game_over = FALSE,
                     !.paused = FALSE, !.score_submitted = FALSE]

\* C27: restart_game, by R in play, by the Restart button of the pause menu
\* and by R or the restart text after a game over, yields the initial
\* playing state (one segment at the grid centre heading right, length 1,
\* score 0, two foods, BASE_FPS, game_over, paused and score_submitted
\* False) and leaves the leaderboard entries and the file as they were.
C27_RestartYieldsInitial ==
    (status = "running" /\ ~title_screen) =>
        /\ restart_game(Cur) # {}
        /\ \A r \in restart_game(Cur) : InitialPlay(r, Cur)
        /\ (~show_leaderboard /\ ~paused /\ ~game_over) =>
              OnKeyDown(Cur, "r") = restart_game(Cur)
        /\ (~show_leaderboard /\ paused) =>
              OnMouseButtonDown(Cur, "restart_button") = restart_game(Cur)
        /\ (~show_leaderboard /\ ~paused /\ game_over) =>
              /\ OnKeyDown(Cur, "r") = restart_game(Cur)
              /\ OnMouseButtonDown(Cur, "restart_text") = restart_game(Cur)

\* A game over whose score went onto the leaderboard, about to be restarted.
C27_Witness ==
    /\ status = "running" /\ ~title_screen /\ ~show_leaderboard
    /\ game_over /\ score_submitted
    /\ score > 0 /\ length > 1
    /\ \E i \in 1..Len(scores) : scores[i].score = score /\ scores[i].length = length

\* The sequences of direction requests made between two ticks.
RequestSeqs == UNION {[1..n -> Directions] : n \in 0..MaxRequests}

\* change_direction called with each request of q in turn.
RECURSIVE Requested(_, _)
Requested(s, q) ==
    IF q = <<>> THEN s ELSE Requested(change_direction(s, Head(q)), Tail(q))

\* The last request of q that is not the inverse of dir, or pending when
\* there is none.
RECURSIVE LastValid(_, _, _)
LastValid(q, dir, pending) ==
    IF q = <<>> THEN pending
    ELSE IF q[Len(q)] # Inverse(dir) THEN q[Len(q)]
    ELSE LastValid(SubSeq(q, 1, Len(q) - 1), dir, pending)

\* C28: direction requests take effect only at the tick.  Any sequence of
\* change_direction calls leaves direction as it is and leaves in
\* next_direction the last request that is not the inverse of the committed
\* direction (the pending one when there is none); an arrow key in play is
\* one such call; the tick commits next_direction, moves the head by it and
\* leaves it pending, so that with no request the next tick moves the old
\* way; outside a tick direction changes only where the snake is reset.
C28_RequestsCommitAtTick ==
    /\ [](status = "running" =>
            \A q \in RequestSeqs :
                Requested(Cur, q) =
                    [Cur EXCEPT !.next_direction = LastValid(q, direction, next_direction)])
    /\ []((status = "running" /\ ~title_screen /\ ~show_leaderboard /\ ~paused /\ ~game_over) =>
            \A key \in {"UP", "DOWN", "LEFT", "RIGHT"} :
                OnKeyDown(Cur, key) = {change_direction(Cur, KeyDirection(key))})
    /\ [][TickStep =>
            /\ direction' = next_direction
            /\ next_direction' = next_direction
            /\ ~game_over' => positions'[1] = ComputedHead]_vars
    /\ [][(~TickStep /\ direction' # direction) =>
            \/ status' # "running"
            \/ /\ direction' = <<1, 0>> /\ next_direction' = <<1, 0>>
               /\ length' = 1 /\ score' = 0 /\ Len(positions') = 1]_vars

\* A tick has moved the head downwards, the turn requested before it, and a
\* turn to the left is pending.
C28_Witness ==
    /\ status = "running" /\ ~title_screen /\ ~game_over
    /\ ticks = 2
    /\ direction = <<0, 1>> /\ next_direction = <<-1, 0>>
    /\ Len(positions) >= 2
    /\ positions[1] = NewHead(Tail(positions), direction, SCREEN_WIDTH, SCREEN_HEIGHT)

\* C29: a tick that ends in a collision leaves positions, length, score,
\* current_speed, the food list and every food timer as they were: it
\* commits next_direction into direction and sets game_over, and nothing
\* else of the game changes (the leaderboard is not written on that tick).
C29_CollisionTickFrame ==
    [][(TickStep /\ game_over') =>
          Reached = [Cur EXCEPT !.direction = next_direction,
                                !.game_over = TRUE,
                                !.ticks = ticks + 1]]_vars

\* The tick of a collision has just been played (the score is not yet
\* submitted): the snake had eaten and turned, and a food is part of the
\* way through its lifetime.
C29_Witness ==
    /\ status = "running" /\ game_over /\ ~score_submitted
    /\ score > 0 /\ Len(positions) >= 2
    /\ direction # <<1, 0>>
    /\ \E i \in 1..Len(foods) : foods[i].type > 1 /\ foods[i].timer < Lifetime(foods[i].type)

\* The food is in the last tick of its lifetime.
LastTick(f) == f.type > 1 /\ f.timer <= 1

\* The foods of fs that are not in the last tick of their lifetime.
RECURSIVE Outliving(_)
Outliving(fs) ==
    IF fs = <<>> THEN <<>>
    ELSE IF LastTick(Head(fs)) THEN Outliving(Tail(fs))
    ELSE <<Head(fs)>> \o Outliving(Tail(fs))

\* C30: within a tick expiry comes before consumption.  In every state in
\* play whose next move does not collide, every outcome of update() has
\* the score and the length raised by the foods under the new head that are
\* not in the last tick of their lifetime, and by nothing else: a food in
\* its last tick awards no points and no growth even with the head on its
\* cell, and it is gone from the field afterwards.
C30_ExpiryBeforeMeal ==
    (status = "running" /\ ~Idle(Cur) /\ ~HeadInOldBody) =>
        \A t \in Game_update(Cur) :
            t.status = "running" =>
                /\ t.score = score + PointsOn(Outliving(foods), ComputedHead)
                /\ t.length = length + GrowthOn(variant, Outliving(foods), ComputedHead)
                /\ \A i \in 1..Len(t.foods) :
                      t.foods[i].active /\ (t.foods[i].type > 1 => t.foods[i].timer > 0)
                /\ (\A i \in 1..Len(foods) :
                        colliderect(ComputedHead, foods[i].position) => LastTick(foods[i])) =>
                      /\ t.score = score /\ t.length = length
                      /\ t.current_speed = current_speed

\* The head is about to enter the cell of a food that is in the last tick
\* of its lifetime, and the tick can be played.
C30_Witness ==
    /\ status = "running" /\ ~Idle(Cur) /\ ~HeadInOldBody
    /\ ticks < MaxTicks
    /\ \E i \in 1..Len(foods) :
          LastTick(foods[i]) /\ foods[i].position = ComputedHead

\* C31: after every add_score with a positive score and every reset_scores
\* whose write succeeds, the file holds the in-memory list, and a new
\* LeaderBoard built from that file has the same list in the same order.
C31_SaveThenLoadIsIdentity ==
    status = "running" =>
        /\ \A sc \in {x \in AddScores : x > 0}, len \in AddLengths, date \in Dates :
              LET t == LeaderBoard_add_score(Cur, sc, len, date, "ok")
                  u == LeaderBoard_init(t, "ok")
              IN /\ t.status = "running"
                 /\ t.file = JsonDump(t.scores)
                 /\ u = t
        /\ variant = "snake_rush" =>
              LET lb == reset_scores(file, "ok")
                  u == load_scores(lb.file, "ok")
              IN /\ lb.file = JsonDump(lb.scores)
                 /\ u.scores = lb.scores /\ u.file = lb.file /\ u.raised = ""

\* A full leaderboard with entries of equal score, the one just added
\* among them, written to the file as it is in memory.
C31_Witness ==
    /\ status = "running"
    /\ Len(scores) = MAX_ENTRIES
    /\ file = JsonDump(scores)
    /\ \E i \in 1..(MAX_ENTRIES - 1) :
          /\ scores[i].score = scores[i + 1].score
          /\ scores[i].length # scores[i + 1].length

\* C32: every food on the field has a tier the spawn table gives a
\* positive chance at the current score: below a score of 10 no food is of
\* tier 3 or 4, below 25 none is of tier 4.
C32_TiersWithinTable ==
    status = "running" =>
        \A i \in 1..Len(foods) :
            /\ foods[i].active
            /\ foods[i].type \in SpawnTypes(score)
            /\ score < 10 => foods[i].type \in {1, 2}
            /\ score < 25 => foods[i].type \in {1, 2, 3}

\* A meal has taken the score to 10 and the food spawned after it is of
\* the third tier, its whole lifetime ahead.
C32_Witness ==
    /\ status = "running" /\ ~game_over
    /\ ticks = MaxTicks /\ score = 10
    /\ Len(foods) = BASE_FOODS
    /\ foods[2].type = 3 /\ foods[2].timer = TIMER_3

\* C33: update() called while title_screen, paused or show_leaderboard is
\* set and game_over is not changes nothing: the snake, the foods and their
\* timers, the score, the speed, the leaderboard and its file are as before.
C33_IdleUpdateChangesNothing ==
    (status = "running" /\ ~game_over /\ (title_screen \/ paused \/ show_leaderboard)) =>
        \A t \in Game_update(Cur) :
            /\ t.positions = positions /\ t.direction = direction
            /\ t.next_direction = next_direction
            /\ t.length = length /\ t.score = score
            /\ t.foods = foods /\ t.current_speed = current_speed
            /\ t.scores = scores /\ t.file = file
            /\ t = Cur

\* The leaderboard is open over the pause menu in the middle of a game: a
\* meal behind, a turn pending, a food part of the way through its lifetime
\* and a leaderboard file that is not what is in memory.
C33_Witness ==
    /\ status = "running" /\ ~game_over /\ ~title_screen
    /\ paused /\ show_leaderboard
    /\ score > 0 /\ next_direction # direction
    /\ file # JsonDump(scores)
    /\ \E i \in 1..Len(foods) : foods[i].type > 1 /\ foods[i].timer < Lifetime(foods[i].type)

\* C34: while the program runs at most one of title_screen, paused and
\* game_over is set, and show_leaderboard is set only together with
\* title_screen or paused, never during active play or after a game over.
C34_ModesExclusive ==
    status = "running" =>
        /\ ~(title_screen /\ paused)
        /\ ~(title_screen /\ game_over)
        /\ ~(paused /\ game_over)
        /\ show_leaderboard => (title_screen \/ paused)

\* Back on the title screen with the leaderboard open, after a game that
\* was played, paused and left for the main menu.
C34_Witness ==
    /\ status = "running"
    /\ title_screen /\ show_leaderboard
    /\ ~paused /\ ~game_over
    /\ ticks > 0

\* The window has the size it opened with: no VIDEORESIZE has been taken.
NoResize ==
    SCREEN_WIDTH = GRID_WIDTH * BLOCK_SIZE /\ SCREEN_HEIGHT = GRID_HEIGHT * BLOCK_SIZE

\* Cells a and b are one unit step apart on the torus of the grid.
TorusNeighbours(a, b) ==
    \E d \in Directions :
        a = <<(b[1] + d[1] * BLOCK_SIZE) % (GRID_WIDTH * BLOCK_SIZE),
              (b[2] + d[2] * BLOCK_SIZE) % (GRID_HEIGHT * BLOCK_SIZE)>>

\* C35: with no resize the segments of the snake are grid cells, pairwise
\* distinct, and every two consecutive segments are neighbours on the torus.
C35_BodyIsAPath ==
    (status = "running" /\ NoResize) =>
        /\ \A i \in 1..Len(positions) : positions[i] \in GridCells
        /\ \A i, j \in 1..Len(positions) : i # j => positions[i] # positions[j]
        /\ \A i \in 1..(Len(positions) - 1) : TorusNeighbours(positions[i], positions[i + 1])

\* A snake of three segments that has wrapped round the right edge.
C35_Witness ==
    /\ status = "running" /\ NoResize
    /\ Len(positions) = 3
    /\ \E i \in 1..2 :
          /\ positions[i][1] = 0
          /\ positions[i + 1][1] = (GRID_WIDTH - 1) * BLOCK_SIZE

\* The playfield the snake wraps in is at least three cells each way.
Roomy == SCREEN_WIDTH >= 3 * BLOCK_SIZE /\ SCREEN_HEIGHT >= 3 * BLOCK_SIZE

\* C36: on a playfield at least three cells wide and high a snake of one
\* or two cells never collides, whatever directions are requested before
\* the tick; and a game is never over with a score of 0.
C36_ShortSnakeNeverCollides ==
    /\ []((status = "running" /\ Roomy /\ Len(positions) <= 2) =>
            \A q \in RequestSeqs : ~Snake_update(Requested(Cur, q)).ret)
    /\ [][(TickStep /\ Roomy /\ Len(positions) <= 2) => ~game_over']_vars
    /\ [](game_over => score > 0)

\* A snake of two cells has turned and played a tick as two cells, in a
\* window three cells each way.
C36_Witness ==
    /\ status = "running" /\ ~game_over /\ Roomy
    /\ ticks = MaxTicks
    /\ length = 2 /\ Len(positions) = 2
    /\ direction[1] = 0

\* The states n non-terminal ticks without a meal lead to from the states
\* of S, with no event in between.
RECURSIVE Fasting(_, _)
Fasting(S, n) ==
    IF n = 0 \/ S = {} THEN S
    ELSE Fasting(UNION {{t \in Game_update(s) :
                            /\ t.status = "running" /\ ~t.game_over
                            /\ t.ticks = s.ticks + 1
                            /\ t.length = s.length} : s \in S}, n - 1)

\* C37: 1 <= len(positions) <= length in every running state; a tick that
\* does not end the game adds exactly one segment when len(positions) was
\* below length before it and none otherwise; so n ticks without a meal,
\* n up to the gap left by a growth, add n segments.
C37_LengthCatchesUp ==
    /\ [](status = "running" => (1 <= Len(positions) /\ Len(positions) <= length))
    /\ [][(TickStep /\ ~game_over') =>
            Len(positions') - Len(positions) = (IF Len(positions) < length THEN 1 ELSE 0)]_vars
    /\ []((status = "running" /\ ~Idle(Cur)) =>
            \A n \in 0..Min(length - Len(positions), Growth(4)) :
                \A t \in Fasting({Cur}, n) : Len(t.positions) = Len(positions) + n)

\* Two ticks after a meal of the second tier the body has the three
\* segments the meal raised the target to.
C37_Witness ==
    /\ status = "running" /\ ~game_over
    /\ ticks = 3 /\ score = 2
    /\ length = 3 /\ Len(positions) = 3

C39_OnlyYesResets ==
    (status = "running" /\ show_leaderboard) =>
        /\ \A ans \in {"no", "quit"} :
              \A t \in Answered(Cur, title_screen, ans) :
                  t.scores = scores /\ t.file = file
        /\ \E t \in Answered(Cur, title_screen, "yes") :
              t.scores = <<>> /\ t.file = JsonDump(<<>>)

\* The leaderboard view of the title screen with entries in the list and
\* in the file: the window closed while the dialog is open empties both.
C39_QuitResets ==
    /\ status = "running" /\ title_screen /\ show_leaderboard
    /\ scores # <<>> /\ file = JsonDump(scores)
    /\ \E t \in Answered(Cur, TRUE, "quit") :
          t.status = "running" /\ t.scores = <<>> /\ t.file = JsonDump(<<>>)

\* C40: during active play and after a game over, with the leaderboard
\* view closed, no click reaches the confirmation dialog or reset_scores:
\* whatever is clicked, the leaderboard list and its file stay as they are.
C40_NoResetOutsideView ==
    (status = "running" /\ ~title_screen /\ ~paused /\ ~show_leaderboard) =>
        \A hit \in ClickTargets :
            \A t \in OnMouseButtonDown(Cur, hit) :
                t.scores = scores /\ t.file = file

\* In the middle of a game, the leaderboard view closed, with entries in
\* the list and in the file: a click where the Reset Scores button would
\* be empties both.
C40_ResetDuringPlay ==
    /\ status = "running"
    /\ ~title_screen /\ ~paused /\ ~show_leaderboard /\ ~game_over
    /\ ticks > 0 /\ score > 0
    /\ scores # <<>> /\ file = JsonDump(scores)
    /\ \E t \in OnMouseButtonDown(Cur, "reset_scores_button") :
          t.status = "running" /\ t.scores = <<>> /\ t.file = JsonDump(<<>>)

====
